---- MODULE Spec2Model ----
(***************************************************************************)
(* Model of the subway-locker backend (express routes over a relational    *)
(* store with soft delete): /auth, /users, /stations, /comments, /posts.   *)
(*                                                                         *)
(* The store is five tables.  A row's primary key is its index in the      *)
(* table's sequence (auto-increment, rows are never removed); "deleted"    *)
(* is the paranoid deletedAt marker.  Strings are sequences of one-        *)
(* character strings so that the regular expressions and Number(...) of    *)
(* the handlers are computed, not assumed.                                 *)
(*                                                                         *)
(* src/routes/user.js holds three modules one after the other: the users   *)
(* router (lines 1-248), an earlier stations router (250-423) and the      *)
(* stations router with the authority guards (425-841).  src/unnamed/      *)
(* part_000 is the auth router and part_001 an earlier users router.  The  *)
(* model follows the guarded routers and part_000.                         *)
(***************************************************************************)
EXTENDS Integers, Sequences, FiniteSets, TLC

\* ------------------------------------------------------------------ bounds
MaxUsers == 2
MaxStations == 2
MaxLockers == 2
MaxPosts == 1
MaxComments == 1
MaxRows == 4

\* ------------------------------------------------------- JavaScript values
JStr(s) == [t |-> "string", n |-> 0, s |-> s]
JNum(n) == [t |-> "number", n |-> n, s |-> << >>]
JUndef == [t |-> "undefined", n |-> 0, s |-> << >>]

DigitChars == {"0", "1", "2", "3", "4", "5", "6", "7", "8", "9"}
LetterChars ==
  {"a", "b", "c", "d", "e", "f", "g", "h", "i", "j", "k", "l", "m", "n", "o",
   "p", "q", "r", "s", "t", "u", "v", "w", "x", "y", "z",
   "A", "B", "C", "D", "E", "F", "G", "H", "I", "J", "K", "L", "M", "N", "O",
   "P", "Q", "R", "S", "T", "U", "V", "W", "X", "Y", "Z"}
WhitespaceChars == {" ", "\t", "\n", "\r"}

DigitValue(c) ==
  CASE c = "0" -> 0 [] c = "1" -> 1 [] c = "2" -> 2 [] c = "3" -> 3
    [] c = "4" -> 4 [] c = "5" -> 5 [] c = "6" -> 6 [] c = "7" -> 7
    [] c = "8" -> 8 [] c = "9" -> 9

RECURSIVE DecimalValue(_)
DecimalValue(s) ==
  IF Len(s) = 0 THEN 0
  ELSE 10 * DecimalValue(SubSeq(s, 1, Len(s) - 1)) + DigitValue(s[Len(s)])

\* Number(v) for the strings of decimal digits and for what is no number at
\* all; nan marks NaN.  Number("") is 0.
ToNumber(v) ==
  IF v.t = "number" THEN [nan |-> FALSE, n |-> v.n]
  ELSE IF v.t = "string" /\ \A i \in 1..Len(v.s) : v.s[i] \in DigitChars
       THEN [nan |-> FALSE, n |-> DecimalValue(v.s)]
       ELSE [nan |-> TRUE, n |-> 0]

\* !x of the handlers' presence checks.
Falsy(v) ==
  \/ v.t = "undefined"
  \/ v.t = "string" /\ Len(v.s) = 0
  \/ v.t = "number" /\ v.n = 0

\* Number.isInteger(v): false for every value that is not of type number.
NumberIsInteger(v) == v.t = "number"

\* !Number(v)
NotNumber(v) == ToNumber(v).nan \/ ToNumber(v).n = 0

\* ----------------------------------------------------------------- results
\* What a handler ends with.  kind: "send" res.status(s).send(..); "http"
\* next(HttpException(s, ..)); "error" next(err) with an error that is no
\* HttpException and carries no status (err names it); "next" next() with no
\* argument; "none" the handler returns without answering; "gate" a
\* middleware in front of the handler refused the request.
\* why tags the throw statement (its message) or what was sent.
Send(s, why) == [kind |-> "send", status |-> s, why |-> why]
Http(s, why) == [kind |-> "http", status |-> s, why |-> why]
Thrown(name) == [kind |-> "error", status |-> 0, why |-> name]
NoAnswer == [kind |-> "none", status |-> 0, why |-> "no response"]

\* ------------------------------------------------------------------- state
VARIABLES users, stations, lockers, posts, comments, pcs, last

vars == <<users, stations, lockers, posts, comments, pcs, last>>
db == <<users, stations, lockers, posts, comments>>

\* A finished request: the route, the caller's token, the path parameter, the
\* body, whether the handler body ran, and the result.
Done(route, auth, id, body, ran, res) ==
  [route |-> route, auth |-> auth, id |-> id, body |-> body, ran |-> ran,
   kind |-> res.kind, status |-> res.status, why |-> res.why]

NoId == JUndef
NoBody == [none |-> TRUE]
Idle == [pc |-> "idle"]
Procs == {1, 2}
AllIdle == \A p \in Procs : pcs[p].pc = "idle"

Init ==
  /\ users = << >>
  /\ stations = << >>
  /\ lockers = << >>
  /\ posts = << >>
  /\ comments = << >>
  /\ pcs = [p \in Procs |-> Idle]
  /\ last = Done("", "none", NoId, NoBody, FALSE, NoAnswer)

\* ------------------------------------------------------------- the store
\* Default (paranoid) scope: rows whose deletedAt is null.
ActiveIds(table) == {i \in 1..Len(table) : ~table[i].deleted}
DeletedIds(table) == {i \in 1..Len(table) : table[i].deleted}

\* Variant: destroy removes the rows (a model that is not paranoid).
DestroyRemoves(table, ids) ==
  LET kept == {i \in 1..Len(table) : i \notin ids}
      nth(k) == CHOOSE i \in kept : Cardinality({j \in kept : j < i}) = k - 1
  IN [k \in 1..Cardinality(kept) |-> table[nth(k)]]

\* Model.destroy({where}) and Model.restore({where}) over the rows in ids.
Destroy(table, ids) ==
  [i \in 1..Len(table) |->
     IF i \in ids THEN [table[i] EXCEPT !.deleted = TRUE] ELSE table[i]]
Restore(table, ids) ==
  [i \in 1..Len(table) |->
     IF i \in ids THEN [table[i] EXCEPT !.deleted = FALSE] ELSE table[i]]

\* {where: {id}} with the id as it came in the request: the store compares
\* the column with the number the value denotes.  (What a store does with a
\* string that denotes no number differs between dialects: the requests that
\* reach the store with their raw parameter carry strings of digits.)
IdsWhereId(table, v) ==
  {i \in 1..Len(table) : ~ToNumber(v).nan /\ ToNumber(v).n = i}

\* ---------------------------------------------------------------- AuthGate
\* authenticateToken, then authorityConfirmation(required).  required is
\* "NONE" for a route with no middleware and "TOKEN" for authenticateToken
\* alone.  auth is the request's token: "none" (missing or invalid), "user",
\* "admin".
Tokens == {"none", "user", "admin"}

Gate(required, auth) ==
  IF required = "NONE" THEN "pass"
  ELSE IF auth = "none" THEN "unauthenticated"
  ELSE IF required \in {"TOKEN", "BOTH"} THEN "pass"
  ELSE IF required = "USER" /\ auth = "user" THEN "pass"
  ELSE IF required = "ADMIN" /\ auth = "admin" THEN "pass"
  ELSE "forbidden"

RefusalStatus(required, auth) ==
  IF Gate(required, auth) = "unauthenticated" THEN {401} ELSE {401, 403}

\* Variant: DELETE /stations/:id registered for both authorities.
RouteAuthorityDeleteForBoth(route) ==
  CASE route = "POST /auth/sign-up" -> "NONE"
    [] route = "GET /users" -> "ADMIN"
    [] route = "DELETE /users/:id" -> "BOTH"
    [] route = "PATCH /users/:id" -> "ADMIN"
    [] route = "POST /stations" -> "ADMIN"
    [] route = "DELETE /stations/:id" -> "BOTH"
    [] route = "PATCH /stations/restore/:id" -> "ADMIN"
    [] route = "POST /comments" -> "ADMIN"
    [] route = "GET /comments/:id" -> "BOTH"
    [] route = "DELETE /comments/:id" -> "ADMIN"
    [] route = "PATCH /comments/restore/:id" -> "ADMIN"
    [] route = "POST /posts" -> "NONE"

\* The middleware each route is registered with.
RouteAuthority(route) ==
  CASE route = "POST /auth/sign-up" -> "NONE"
    [] route = "GET /users" -> "ADMIN"
    [] route = "DELETE /users/:id" -> "BOTH"
    [] route = "PATCH /users/:id" -> "ADMIN"
    [] route = "POST /stations" -> "ADMIN"
    [] route = "DELETE /stations/:id" -> "ADMIN"
    [] route = "PATCH /stations/restore/:id" -> "ADMIN"
    [] route = "POST /comments" -> "ADMIN"
    [] route = "GET /comments/:id" -> "BOTH"
    [] route = "DELETE /comments/:id" -> "ADMIN"
    [] route = "PATCH /comments/restore/:id" -> "ADMIN"
    [] route = "POST /posts" -> "NONE"

\* The request is refused in front of the handler: nothing is read or written.
Refused(route, auth) ==
  /\ Gate(RouteAuthority(route), auth) # "pass"
  /\ \E s \in RefusalStatus(RouteAuthority(route), auth) :
       last' = Done(route, auth, NoId, NoBody, FALSE,
                    [kind |-> "gate", status |-> s, why |-> Gate(RouteAuthority(route), auth)])
  /\ UNCHANGED <<db, pcs>>

Passes(route, auth) == Gate(RouteAuthority(route), auth) = "pass"

Refuse(route, auth) == AllIdle /\ Refused(route, auth)

\* The rows of all tables together: the creating handlers stop at MaxRows.
Rows == Len(users) + Len(stations) + Len(lockers) + Len(posts) + Len(comments)

\* ------------------------------------------------------ POST /auth/sign-up
\* Variant: the class without '!'.
SpecialCharactersNoBang ==
  {"{", "}", "[", "]", "/", "?", ",", ";", ":", "|", ")", "*", "~", "backtick",
   "^", "-", "+", "<", ">", "#", "$", "%", "&", "backslash", "=", "(", "apostrophe", "doublequote"}

\* /[\{\}\[\]\/?,;:|\)*~..!^\-+<>\#$%&\\\=\(..]/g as a set of characters.
specialCharacters ==
  {"{", "}", "[", "]", "/", "?", ",", ";", ":", "|", ")", "*", "~", "backtick", "!",
   "^", "-", "+", "<", ">", "#", "$", "%", "&", "backslash", "=", "(", "apostrophe", "doublequote"}
emptySpace == WhitespaceChars
passwordLengthMin == 8
passwordLengthMax == 15

\* (Backtick, apostrophe, backslash and double quote are written by name.)

\* s.match(/[set]/g) is not null
MatchesAny(s, set) == \E i \in 1..Len(s) : s[i] \in set

\* /^[0-9,a-zA-Z]/
startEnglishNumber(s) ==
  Len(s) > 0 /\ s[1] \in DigitChars \cup LetterChars \cup {","}

\* email.split('@')[1]: what lies between the first '@' and the next one (or
\* the end); undefined when there is no '@'.
SplitAt1(s) ==
  LET ats == {i \in 1..Len(s) : s[i] = "@"} IN
  IF ats = {} THEN JUndef
  ELSE LET first == CHOOSE i \in ats : \A j \in ats : i <= j
           later == {i \in ats : i > first}
           stop == IF later = {} THEN Len(s) + 1
                   ELSE CHOOSE i \in later : \A j \in later : i <= j
       IN JStr(SubSeq(s, first + 1, stop - 1))

\* /^([0-9a-zA-Z_-]+)(\.[0-9a-zA-Z_-]+){1,5}$/ : two to six non-empty labels
\* of [0-9a-zA-Z_-] joined by dots.
LabelChars == DigitChars \cup LetterChars \cup {"_", "-"}
emailAfterAtPattern(s) ==
  LET dots == {i \in 1..Len(s) : s[i] = "."} IN
  /\ Len(s) > 0
  /\ \A i \in 1..Len(s) : s[i] \in LabelChars \cup {"."}
  /\ s[1] # "." /\ s[Len(s)] # "."
  /\ \A i \in dots : (i + 1) \notin dots
  /\ Cardinality(dots) >= 1 /\ Cardinality(dots) <= 5

\* User.findOne({where: {email}}) finds a row (default scope).
UserFindOneByEmail(email) ==
  \E i \in ActiveIds(users) : users[i].email = email

\* Variant: no unique index on users.email.
EmailNeverTaken(email) == FALSE

\* The unique index on users.email counts every row, deleted or not.
EmailTaken(email) == \E i \in 1..Len(users) : users[i].email = email

\* Variant: no User.findOne before the rules.
SignUpResultNoDuplicateCheck(email, password) ==
  IF email.t # "string" THEN Thrown("TypeError")
  ELSE IF MatchesAny(email.s, specialCharacters) THEN Http(400, "special")
  ELSE IF MatchesAny(email.s, emptySpace) THEN Http(400, "space")
  ELSE IF ~startEnglishNumber(email.s) THEN Http(400, "start")
  ELSE IF SplitAt1(email.s).t = "undefined" THEN Thrown("TypeError")
  ELSE IF ~emailAfterAtPattern(SplitAt1(email.s).s) THEN Http(400, "domain")
  ELSE IF password.t # "string" THEN Thrown("TypeError")
  ELSE IF Len(password.s) < passwordLengthMin \/ Len(password.s) > passwordLengthMax
       THEN Http(400, "length")
  ELSE IF MatchesAny(password.s, emptySpace) THEN Http(400, "password space")
  ELSE IF EmailTaken(email.s) THEN Thrown("SequelizeUniqueConstraintError")
  ELSE Send(201, "created")

\* The handler's result for a body {email, password}; "created" is the one
\* result that has inserted a row.
SignUpResult(email, password) ==
  IF email.t # "string" THEN Thrown("TypeError")
  ELSE IF UserFindOneByEmail(email.s) THEN Http(400, "duplicate")
  ELSE IF MatchesAny(email.s, specialCharacters) THEN Http(400, "special")
  ELSE IF MatchesAny(email.s, emptySpace) THEN Http(400, "space")
  ELSE IF ~startEnglishNumber(email.s) THEN Http(400, "start")
  ELSE IF SplitAt1(email.s).t = "undefined" THEN Thrown("TypeError")
  ELSE IF ~emailAfterAtPattern(SplitAt1(email.s).s) THEN Http(400, "domain")
  ELSE IF password.t # "string" THEN Thrown("TypeError")
  ELSE IF Len(password.s) < passwordLengthMin \/ Len(password.s) > passwordLengthMax
       THEN Http(400, "length")
  ELSE IF MatchesAny(password.s, emptySpace) THEN Http(400, "password space")
  ELSE IF EmailTaken(email.s) THEN Thrown("SequelizeUniqueConstraintError")
  ELSE Send(201, "created")

SignUp(email, password) ==
  LET res == SignUpResult(email, password) IN
  /\ AllIdle
  /\ res.why = "created" => Len(users) < MaxUsers /\ Rows < MaxRows
  /\ users' = IF res.why = "created"
               THEN Append(users, [email |-> email.s, deleted |-> FALSE])
               ELSE users
  /\ last' = Done("POST /auth/sign-up", "none", NoId,
                  [email |-> email, password |-> password], TRUE, res)
  /\ UNCHANGED <<stations, lockers, posts, comments, pcs>>

\* The same handler as its two accesses to the store, for requests that run
\* at the same time: User.findOne with the rules that follow it in the same
\* turn, and, after the awaits of findOne and bcrypt.hash, User.create with
\* the answer.  A request whose rules pass waits in "User.create".
Creating == {q \in Procs : pcs[q].pc = "User.create"}

SignUpFind(p, email, password) ==
  LET res == SignUpResult(email, password)
      passed == res.why \in {"created", "SequelizeUniqueConstraintError"}
  IN
  /\ pcs[p].pc = "idle"
  /\ passed => /\ Len(users) + Cardinality(Creating) < MaxUsers
               /\ Rows + Cardinality(Creating) < MaxRows
  /\ pcs' = IF passed
            THEN [pcs EXCEPT ![p] = [pc |-> "User.create", email |-> email,
                                     password |-> password]]
            ELSE pcs
  /\ last' = IF passed THEN last
             ELSE Done("POST /auth/sign-up", "none", NoId,
                       [email |-> email, password |-> password], TRUE, res)
  /\ UNCHANGED db

SignUpCreate(p) ==
  LET email == pcs[p].email
      res == IF EmailTaken(email.s) THEN Thrown("SequelizeUniqueConstraintError")
             ELSE Send(201, "created")
  IN
  /\ pcs[p].pc = "User.create"
  /\ users' = IF res.why = "created"
              THEN Append(users, [email |-> email.s, deleted |-> FALSE])
              ELSE users
  /\ last' = Done("POST /auth/sign-up", "none", NoId,
                  [email |-> email, password |-> pcs[p].password], TRUE, res)
  /\ pcs' = [pcs EXCEPT ![p] = Idle]
  /\ UNCHANGED <<stations, lockers, posts, comments>>

\* ---------------------------------------------------------- POST /stations
\* An element of req.body.data: t is its typeof ("object", also for null,
\* marked by isNull), keys its own keys.
Item(keys, name, latitude, longitude) ==
  [t |-> "object", isNull |-> FALSE, keys |-> keys,
   name |-> name, latitude |-> latitude, longitude |-> longitude]
requiredKeys == {"name", "latitude", "longitude"}

\* Station.findOne({where: {name}}) finds a row (default scope).
StationFindOneByName(table, name) ==
  \E i \in ActiveIds(table) : table[i].name = name

\* Variant: no unique index on stations.name.
NameNeverTaken(table, name) == FALSE

\* The unique index on stations.name counts every row, deleted or not.
NameTaken(table, name) == \E i \in 1..Len(table) : table[i].name = name

\* Variant: the latitude bounds themselves are accepted.
ItemResultLatitudeInclusive(table, item) ==
  IF item.isNull THEN Thrown("TypeError")
  ELSE IF Cardinality(item.keys) = 0 THEN Http(400, "empty")
  ELSE IF item.t # "object" THEN Http(400, "not object")
  ELSE IF ~(requiredKeys \subseteq item.keys)
          \/ Cardinality(item.keys) # Cardinality(requiredKeys)
       THEN Http(400, "keys")
  ELSE IF item.name.t # "string" THEN Http(400, "name")
  ELSE IF item.latitude.t # "number" THEN Http(400, "latitude type")
  ELSE IF ~(-90 <= item.latitude.n /\ 90 >= item.latitude.n)
       THEN Http(400, "latitude range")
  ELSE IF item.longitude.t # "number" THEN Http(400, "longitude type")
  ELSE IF ~(-180 < item.longitude.n /\ 180 > item.longitude.n)
       THEN Http(400, "longitude range")
  ELSE IF StationFindOneByName(table, item.name.s) THEN Http(400, "duplicate")
  ELSE IF NameTaken(table, item.name.s)
       THEN Thrown("SequelizeUniqueConstraintError")
  ELSE Send(201, "created")

\* Variant: no Station.findOne before Station.create.
ItemResultNoDuplicateCheck(table, item) ==
  IF item.isNull THEN Thrown("TypeError")
  ELSE IF Cardinality(item.keys) = 0 THEN Http(400, "empty")
  ELSE IF item.t # "object" THEN Http(400, "not object")
  ELSE IF ~(requiredKeys \subseteq item.keys)
          \/ Cardinality(item.keys) # Cardinality(requiredKeys)
       THEN Http(400, "keys")
  ELSE IF item.name.t # "string" THEN Http(400, "name")
  ELSE IF item.latitude.t # "number" THEN Http(400, "latitude type")
  ELSE IF ~(-90 < item.latitude.n /\ 90 > item.latitude.n)
       THEN Http(400, "latitude range")
  ELSE IF item.longitude.t # "number" THEN Http(400, "longitude type")
  ELSE IF ~(-180 < item.longitude.n /\ 180 > item.longitude.n)
       THEN Http(400, "longitude range")
  ELSE IF NameTaken(table, item.name.s)
       THEN Thrown("SequelizeUniqueConstraintError")
  ELSE Send(201, "created")

\* The checks of one item, in the handler's order, against the table as the
\* earlier items of the batch left it.
ItemResult(table, item) ==
  IF item.isNull THEN Thrown("TypeError")
  ELSE IF Cardinality(item.keys) = 0 THEN Http(400, "empty")
  ELSE IF item.t # "object" THEN Http(400, "not object")
  ELSE IF ~(requiredKeys \subseteq item.keys)
          \/ Cardinality(item.keys) # Cardinality(requiredKeys)
       THEN Http(400, "keys")
  ELSE IF item.name.t # "string" THEN Http(400, "name")
  ELSE IF item.latitude.t # "number" THEN Http(400, "latitude type")
  ELSE IF ~(-90 < item.latitude.n /\ 90 > item.latitude.n)
       THEN Http(400, "latitude range")
  ELSE IF item.longitude.t # "number" THEN Http(400, "longitude type")
  ELSE IF ~(-180 < item.longitude.n /\ 180 > item.longitude.n)
       THEN Http(400, "longitude range")
  ELSE IF StationFindOneByName(table, item.name.s) THEN Http(400, "duplicate")
  ELSE IF NameTaken(table, item.name.s)
       THEN Thrown("SequelizeUniqueConstraintError")
  ELSE Send(201, "created")

\* for (let n in data) { checks; Station.create }: the table and the result
\* after the items from position k on.  Each create is its own statement:
\* rows created before a failing item stay.
RECURSIVE StationsLoop(_, _, _)
StationsLoop(table, data, k) ==
  IF k > Len(data) THEN [table |-> table, res |-> Send(201, "created")]
  ELSE LET r == ItemResult(table, data[k]) IN
       IF r.why # "created" THEN [table |-> table, res |-> r]
       ELSE StationsLoop(
              Append(table, [name |-> data[k].name.s,
                             latitude |-> data[k].latitude.n,
                             longitude |-> data[k].longitude.n,
                             deleted |-> FALSE]),
              data, k + 1)

\* data is JUndef (no data in the body) or [t |-> "array", items |-> <<..>>].
PostStationsRun(data) ==
  IF data.t = "undefined"
  THEN [table |-> stations, res |-> Http(400, "no data")]
  ELSE StationsLoop(stations, data.items, 1)

PostStations(auth, data) ==
  LET run == PostStationsRun(data) IN
  /\ AllIdle
  /\ Passes("POST /stations", auth)
  /\ Len(run.table) <= MaxStations
  /\ Rows + Len(run.table) - Len(stations) <= MaxRows
  /\ stations' = run.table
  /\ last' = Done("POST /stations", auth, NoId, data, TRUE, run.res)
  /\ UNCHANGED <<users, lockers, posts, comments, pcs>>

\* ------------------------------------------------------ DELETE /stations/:id
\* Station.findOne, then Locker.destroy, then Station.destroy: three
\* repository calls, each a step, so that the states between them exist.
StationDeleteFind(p, auth, id) ==
  /\ AllIdle
  /\ Passes("DELETE /stations/:id", auth)
  /\ IF Falsy(id)
     THEN /\ last' = Done("DELETE /stations/:id", auth, id, NoBody, TRUE,
                          Http(400, "no id"))
          /\ pcs' = pcs
     ELSE IF IdsWhereId(stations, id) \cap ActiveIds(stations) = {}
     THEN /\ last' = Done("DELETE /stations/:id", auth, id, NoBody, TRUE,
                          Http(400, "no station"))
          /\ pcs' = pcs
     ELSE /\ pcs' = [pcs EXCEPT ![p] =
                      [pc |-> "Locker.destroy", auth |-> auth, id |-> id,
                       station |-> CHOOSE i \in IdsWhereId(stations, id) : TRUE]]
          /\ last' = last
  /\ UNCHANGED db

\* The same first step for a request that arrives while other requests are
\* between their repository calls.
StationDeleteFindConcurrent(p, auth, id) ==
  /\ pcs[p].pc = "idle"
  /\ Passes("DELETE /stations/:id", auth)
  /\ IF Falsy(id)
     THEN /\ last' = Done("DELETE /stations/:id", auth, id, NoBody, TRUE,
                          Http(400, "no id"))
          /\ pcs' = pcs
     ELSE IF IdsWhereId(stations, id) \cap ActiveIds(stations) = {}
     THEN /\ last' = Done("DELETE /stations/:id", auth, id, NoBody, TRUE,
                          Http(400, "no station"))
          /\ pcs' = pcs
     ELSE /\ pcs' = [pcs EXCEPT ![p] =
                      [pc |-> "Locker.destroy", auth |-> auth, id |-> id,
                       station |-> CHOOSE i \in IdsWhereId(stations, id) : TRUE]]
          /\ last' = last
  /\ UNCHANGED db

\* Variant: the DELETE goes on to Station.destroy without Locker.destroy.
LockerDestroySkipped(p) ==
  /\ pcs[p].pc = "Locker.destroy"
  /\ pcs' = [pcs EXCEPT ![p].pc = "Station.destroy"]
  /\ UNCHANGED <<db, last>>

\* Variant: the station is destroyed before its lockers.
StationDestroyedFirst(p) ==
  /\ pcs[p].pc = "Locker.destroy"
  /\ stations' = Destroy(stations, IdsWhereId(stations, pcs[p].id))
  /\ pcs' = [pcs EXCEPT ![p].pc = "Station.destroy"]
  /\ UNCHANGED <<users, lockers, posts, comments, last>>

\* Variant: Locker.destroy without its where clause.
LockerDestroyAll(p) ==
  /\ pcs[p].pc = "Locker.destroy"
  /\ lockers' = Destroy(lockers, {i \in 1..Len(lockers) : TRUE})
  /\ pcs' = [pcs EXCEPT ![p].pc = "Station.destroy"]
  /\ UNCHANGED <<users, stations, posts, comments, last>>

\* await Locker.destroy({where: {stationId: station.id}})
LockerDestroy(p) ==
  /\ pcs[p].pc = "Locker.destroy"
  /\ lockers' = Destroy(lockers,
                   {i \in 1..Len(lockers) : lockers[i].stationId = pcs[p].station})
  /\ pcs' = [pcs EXCEPT ![p].pc = "Station.destroy"]
  /\ UNCHANGED <<users, stations, posts, comments, last>>

\* await Station.destroy({where: {id}}); res.status(204).send()
StationDestroy(p) ==
  /\ pcs[p].pc = "Station.destroy"
  /\ stations' = Destroy(stations, IdsWhereId(stations, pcs[p].id))
  /\ last' = Done("DELETE /stations/:id", pcs[p].auth, pcs[p].id, NoBody, TRUE,
                  Send(204, "deleted"))
  /\ pcs' = [pcs EXCEPT ![p] = Idle]
  /\ UNCHANGED <<users, lockers, posts, comments>>

\* ------------------------------------------ PATCH /stations/restore/:id
\* The names the stations router binds (its require lines).  The handler
\* calls checkRequiredParameters, which is not among them.
StationsRouterBindings ==
  {"Station", "Locker", "Comment", "express", "router", "HttpException", "authenticateToken", "authorityConfirmation",
   "checkWeather", "UserAuthority"}

\* checkRequiredParameters([v]).validation
CheckRequiredParameters(v) == ~Falsy(v)

StationRestoreResult(id) ==
  IF "checkRequiredParameters" \notin StationsRouterBindings
  THEN Thrown("ReferenceError")
  ELSE IF ~CheckRequiredParameters(id) THEN Http(400, "no id")
  ELSE IF ~NumberIsInteger(id) THEN Http(400, "not a number")
  ELSE IF IdsWhereId(stations, id) \cap ActiveIds(stations) # {}
       THEN Http(400, "not deleted")
  ELSE Send(200, "restored")

\* Station.restore then Locker.restore happen only on the "restored" result.
StationRestore(auth, id) ==
  LET res == StationRestoreResult(id) IN
  /\ AllIdle
  /\ Passes("PATCH /stations/restore/:id", auth)
  /\ stations' = IF res.why = "restored"
                 THEN Restore(stations, IdsWhereId(stations, id))
                 ELSE stations
  /\ lockers' = IF res.why = "restored"
                THEN Restore(lockers,
                       {i \in 1..Len(lockers) :
                          lockers[i].stationId \in IdsWhereId(stations, id)})
                ELSE lockers
  /\ last' = Done("PATCH /stations/restore/:id", auth, id, NoBody, TRUE, res)
  /\ UNCHANGED <<users, posts, comments, pcs>>

\* --------------------------------------------------- GET /stations, /:id
\* Neither route has a middleware in front.  An answer keeps the ids of the
\* station rows it carries in "sent".
Read(route, id, res, sent) ==
  [route |-> route, auth |-> "none", id |-> id, body |-> NoBody, ran |-> TRUE,
   kind |-> res.kind, status |-> res.status, why |-> res.why, sent |-> sent]

\* Station.findAll(): the rows of the default scope.
GetStations ==
  /\ last' = Read("GET /stations", NoId, Send(200, "list"), ActiveIds(stations))
  /\ UNCHANGED <<db, pcs>>

\* weather is what checkWeather(station) does: it resolves or it throws.
GetStationResult(id, weather) ==
  IF Falsy(id) THEN Http(400, "no id")
  ELSE IF ~NumberIsInteger(id) THEN Http(400, "not a number")
  ELSE IF IdsWhereId(stations, id) \cap ActiveIds(stations) = {}
       THEN Http(400, "no station")
  ELSE IF weather = "throws" THEN Thrown("Error")
  ELSE Send(200, "found")

GetStation(id, weather) ==
  LET res == GetStationResult(id, weather) IN
  /\ last' = Read("GET /stations/:id", id, res,
                  IF res.why = "found" THEN IdsWhereId(stations, id) ELSE {})
  /\ UNCHANGED <<db, pcs>>

\* The restore for a request that arrives while DELETE requests are between
\* their repository calls.  The handler throws on checkRequiredParameters
\* before its first await, so it is one step.
StationRestoreConcurrent(p, auth, id) ==
  LET res == StationRestoreResult(id) IN
  /\ pcs[p].pc = "idle"
  /\ Passes("PATCH /stations/restore/:id", auth)
  /\ stations' = IF res.why = "restored"
                 THEN Restore(stations, IdsWhereId(stations, id))
                 ELSE stations
  /\ lockers' = IF res.why = "restored"
                THEN Restore(lockers,
                       {i \in 1..Len(lockers) :
                          lockers[i].stationId \in IdsWhereId(stations, id)})
                ELSE lockers
  /\ last' = Done("PATCH /stations/restore/:id", auth, id, NoBody, TRUE, res)
  /\ UNCHANGED <<users, posts, comments, pcs>>

\* ------------------------------------------------------------------ lockers
\* A locker row is inserted for a station of the default scope.
CreateLocker(stationId) ==
  /\ AllIdle
  /\ Len(lockers) < MaxLockers /\ Rows < MaxRows
  /\ stationId \in ActiveIds(stations)
  /\ lockers' = Append(lockers, [stationId |-> stationId, deleted |-> FALSE])
  /\ UNCHANGED <<users, stations, posts, comments, pcs, last>>

\* -------------------------------------------------------------------- users
\* GET /users: reads the caller's own row; a throw ends in next() with no
\* argument.  uid is req.user.id.
GetUsersTry(uid) ==
  IF ~CheckRequiredParameters(uid) THEN Http(400, "no id")
  ELSE IF ~NumberIsInteger(uid) THEN Http(400, "not a number")
  ELSE Send(200, "found")

\* catch (err) { next(); }: the error is dropped, the request goes on to
\* the next handler without it.
Dropped(err) == [kind |-> "next", status |-> 0, why |-> err.why]

GetUsersResult(uid) ==
  LET r == GetUsersTry(uid) IN
  IF r.kind \in {"http", "error"} THEN Dropped(r) ELSE r

GetUsers(auth, uid) ==
  /\ AllIdle
  /\ Passes("GET /users", auth)
  /\ last' = Done("GET /users", auth, uid, NoBody, TRUE, GetUsersResult(uid))
  /\ UNCHANGED <<db, pcs>>

UserDeleteResult(id) ==
  IF ~CheckRequiredParameters(id) THEN Http(400, "no id")
  ELSE IF ~NumberIsInteger(id) THEN Http(400, "not a number")
  ELSE Send(204, "deleted")

UserDelete(auth, id) ==
  LET res == UserDeleteResult(id) IN
  /\ AllIdle
  /\ Passes("DELETE /users/:id", auth)
  /\ users' = IF res.why = "deleted"
              THEN Destroy(users, IdsWhereId(users, id))
              ELSE users
  /\ last' = Done("DELETE /users/:id", auth, id, NoBody, TRUE, res)
  /\ UNCHANGED <<stations, lockers, posts, comments, pcs>>

\* PATCH /users/:id: on the restoring path the handler reads the restored
\* row and ends without sending anything.
UserRestoreResult(id) ==
  IF ~CheckRequiredParameters(id) THEN Http(400, "no id")
  ELSE IF ~NumberIsInteger(id) THEN Http(400, "not a number")
  ELSE IF IdsWhereId(users, id) \cap ActiveIds(users) # {}
       THEN Http(400, "not deleted")
  ELSE [kind |-> "none", status |-> 0, why |-> "restored"]

UserRestore(auth, id) ==
  LET res == UserRestoreResult(id) IN
  /\ AllIdle
  /\ Passes("PATCH /users/:id", auth)
  /\ users' = IF res.why = "restored"
              THEN Restore(users, IdsWhereId(users, id))
              ELSE users
  /\ last' = Done("PATCH /users/:id", auth, id, NoBody, TRUE, res)
  /\ UNCHANGED <<stations, lockers, posts, comments, pcs>>

\* -------------------------------------------------------------------- posts
\* POST /posts {email, title, content}: the post is created for the user of
\* the default scope with that email.
PostPostsResult(email) ==
  IF email.t = "undefined" THEN Thrown("Error")
  ELSE IF email.t # "string" \/ ~UserFindOneByEmail(email.s)
       THEN Http(400, "no user")
  ELSE Send(201, "created")

PostPosts(email) ==
  LET res == PostPostsResult(email) IN
  /\ AllIdle
  /\ res.why = "created" => Len(posts) < MaxPosts /\ Rows < MaxRows
  /\ posts' = IF res.why = "created"
               THEN Append(posts,
                      [userId |-> CHOOSE i \in ActiveIds(users) :
                                    users[i].email = email.s])
               ELSE posts
  /\ last' = Done("POST /posts", "none", NoId, [email |-> email], TRUE, res)
  /\ UNCHANGED <<users, stations, lockers, comments, pcs>>

\* ----------------------------------------------------------------- comments
\* content.replace(/ /g, '') === ''
OnlySpaces(s) == \A i \in 1..Len(s) : s[i] = " "

\* Variant: no Post.findByPk before Comment.create.
PostCommentsResultNoPostCheck(postId, content) ==
  IF Falsy(postId) \/ Falsy(content) THEN Http(400, "missing")
  ELSE IF ~NumberIsInteger(postId) THEN Http(400, "not a number")
  ELSE IF content.t # "string" THEN Thrown("TypeError")
  ELSE IF OnlySpaces(content.s) THEN Http(400, "blank")
  ELSE Send(201, "created")

PostCommentsResult(postId, content) ==
  IF Falsy(postId) \/ Falsy(content) THEN Http(400, "missing")
  ELSE IF ~NumberIsInteger(postId) THEN Http(400, "not a number")
  ELSE IF content.t # "string" THEN Thrown("TypeError")
  ELSE IF OnlySpaces(content.s) THEN Http(400, "blank")
  ELSE IF postId.n \notin 1..Len(posts) THEN Http(400, "no post")
  ELSE Send(201, "created")

PostComments(auth, postId, content) ==
  LET res == PostCommentsResult(postId, content) IN
  /\ AllIdle
  /\ Passes("POST /comments", auth)
  /\ res.why = "created" => Len(comments) < MaxComments /\ Rows < MaxRows
  /\ comments' = IF res.why = "created"
                 THEN Append(comments, [postId |-> postId.n, deleted |-> FALSE])
                 ELSE comments
  /\ last' = Done("POST /comments", auth, NoId,
                  [postId |-> postId, content |-> content], TRUE, res)
  /\ UNCHANGED <<users, stations, lockers, posts, pcs>>

\* GET /comments/:id; uid is req.user.id.  A caller of authority USER gets
\* the comment only if Post.findOne({where: {id: comment.postId, userId}})
\* finds a post.
GetCommentResult(auth, uid, id) ==
  IF Falsy(id) THEN Http(400, "no id")
  ELSE IF ~NumberIsInteger(id) THEN Http(400, "not a number")
  ELSE IF IdsWhereId(comments, id) \cap ActiveIds(comments) = {}
       THEN Http(400, "no comment")
  ELSE IF /\ auth = "user"
          /\ \A c \in IdsWhereId(comments, id) :
               ~\E q \in 1..Len(posts) :
                  q = comments[c].postId /\ JNum(posts[q].userId) = uid
       THEN Http(401, "not the owner")
  ELSE Send(200, "found")

GetComment(auth, uid, id) ==
  /\ AllIdle
  /\ Passes("GET /comments/:id", auth)
  /\ last' = [route |-> "GET /comments/:id", auth |-> auth, id |-> id,
              body |-> NoBody, ran |-> TRUE, caller |-> uid,
              kind |-> GetCommentResult(auth, uid, id).kind,
              status |-> GetCommentResult(auth, uid, id).status,
              why |-> GetCommentResult(auth, uid, id).why]
  /\ UNCHANGED <<db, pcs>>

CommentDeleteResult(id) ==
  IF Falsy(id) THEN Http(400, "no id")
  ELSE IF ~NumberIsInteger(id) THEN Http(400, "not a number")
  ELSE IF IdsWhereId(comments, id) \cap ActiveIds(comments) = {}
       THEN Http(400, "no comment")
  ELSE Send(204, "deleted")

CommentDelete(auth, id) ==
  LET res == CommentDeleteResult(id) IN
  /\ AllIdle
  /\ Passes("DELETE /comments/:id", auth)
  /\ comments' = IF res.why = "deleted"
                 THEN Destroy(comments, IdsWhereId(comments, id))
                 ELSE comments
  /\ last' = Done("DELETE /comments/:id", auth, id, NoBody, TRUE, res)
  /\ UNCHANGED <<users, stations, lockers, posts, pcs>>

\* PATCH /comments/restore/:id: a row found in the default scope is "not
\* deleted"; otherwise Comment.restore runs and what Comment.findOne then
\* returns (the row, or null when there is none) is sent with 200.
CommentRestoreResult(id) ==
  IF Falsy(id) THEN Http(400, "no id")
  ELSE IF NotNumber(id) THEN Http(400, "not a number")
  ELSE IF IdsWhereId(comments, id) \cap ActiveIds(comments) # {}
       THEN Http(400, "not deleted")
  ELSE IF IdsWhereId(comments, id) = {} THEN Send(200, "null")
  ELSE Send(200, "restored")

CommentRestore(auth, id) ==
  LET res == CommentRestoreResult(id) IN
  /\ AllIdle
  /\ Passes("PATCH /comments/restore/:id", auth)
  /\ comments' = IF res.kind = "send"
                 THEN Restore(comments, IdsWhereId(comments, id))
                 ELSE comments
  /\ last' = Done("PATCH /comments/restore/:id", auth, id, NoBody, TRUE, res)
  /\ UNCHANGED <<users, stations, lockers, posts, pcs>>

\* ------------------------------------------------------------------- inputs
DigitStr(n) == <<CHOOSE c \in DigitChars : DigitValue(c) = n>>

\* Path parameters are strings: the ids 0..max+1 in decimal, and a word.
NumericParams(max) == {JStr(DigitStr(n)) : n \in 0..(max + 1)}
Params(max) == NumericParams(max) \cup {JStr(<<"x">>)}

Arr(items) == [t |-> "array", items |-> items]
GoodItem(name) == Item(requiredKeys, JStr(<<name>>), JNum(37), JNum(126))
ItemA == GoodItem("A")
ItemB == GoodItem("B")
ItemC == GoodItem("C")
ItemEmpty == Item({}, JUndef, JUndef, JUndef)
ItemNoLongitude == Item({"name", "latitude"}, JStr(<<"A">>), JNum(37), JUndef)
ItemLatitude90 == Item(requiredKeys, JStr(<<"B">>), JNum(90), JNum(126))
ItemLatitudeMinus90 == Item(requiredKeys, JStr(<<"B">>), JNum(-90), JNum(126))
ItemLatitude91 == Item(requiredKeys, JStr(<<"B">>), JNum(91), JNum(126))
ItemLongitude180 == Item(requiredKeys, JStr(<<"B">>), JNum(37), JNum(180))
ItemLongitudeMinus180 == Item(requiredKeys, JStr(<<"B">>), JNum(37), JNum(-180))
ItemLatitudeString == Item(requiredKeys, JStr(<<"B">>), JStr(<<"3", "7">>), JNum(126))
ItemNorthEast == Item(requiredKeys, JStr(<<"C">>), JNum(89), JNum(179))
ItemSouthWest == Item(requiredKeys, JStr(<<"C">>), JNum(-89), JNum(-179))
Batches ==
  {JUndef, Arr(<< >>), Arr(<<ItemA>>), Arr(<<ItemB>>),
   Arr(<<ItemA, ItemB>>), Arr(<<ItemA, ItemA>>), Arr(<<ItemEmpty>>),
   Arr(<<ItemNoLongitude>>), Arr(<<ItemLatitude90>>),
   Arr(<<ItemA, ItemLatitude90>>),
   Arr(<<ItemLatitudeMinus90>>), Arr(<<ItemLatitude91>>),
   Arr(<<ItemLongitude180>>), Arr(<<ItemLongitudeMinus180>>),
   Arr(<<ItemLatitudeString>>), Arr(<<ItemNorthEast>>), Arr(<<ItemSouthWest>>),
   Arr(<<ItemNorthEast, ItemLongitude180>>)}

Rep(c, n) == [i \in 1..n |-> c]
EmailA == <<"a", "@", "b", ".", "c">>
EmailB == <<"b", "@", "b", ".", "c">>
EmailNoAt == <<"a", "b">>
PasswordGood == Rep("p", 8)
PasswordShort == Rep("p", 7)
CoreEmails == {JStr(EmailA), JStr(EmailB), JStr(EmailNoAt)}
CorePasswords == {JStr(PasswordGood), JStr(PasswordShort)}

PostIds == {JNum(1), JNum(2), JStr(<<"1">>), JUndef}
Contents ==
  {JStr(<<"h", "i">>), JStr(<<" ", " ">>), JStr(<< >>), JStr(<<"\t", "\n">>)}
CallerIds == {JNum(1), JNum(2)}
TokenIds == {JNum(1), JUndef}

\* -------------------------------------------------------------- behaviours
GuardedRoutes ==
  {"GET /users", "DELETE /users/:id", "PATCH /users/:id", "POST /stations",
   "DELETE /stations/:id", "PATCH /stations/restore/:id", "POST /comments",
   "DELETE /comments/:id", "PATCH /comments/restore/:id"}
CommentRoutes ==
  {"POST /comments", "GET /comments/:id", "DELETE /comments/:id",
   "PATCH /comments/restore/:id"}
StationRoutes ==
  {"POST /stations", "DELETE /stations/:id", "PATCH /stations/restore/:id"}
CoreBatches == {Arr(<<ItemA>>), Arr(<<ItemB>>), Arr(<<ItemEmpty>>)}

\* The whole API, one request at a time; DELETE /stations/:id takes its
\* three steps with no other handler in between.
Next ==
  \/ \E r \in GuardedRoutes, a \in Tokens : Refuse(r, a)
  \/ \E e \in CoreEmails, pw \in CorePasswords : SignUp(e, pw)
  \/ \E a \in Tokens, u \in TokenIds : GetUsers(a, u)
  \/ \E a \in Tokens, id \in Params(MaxUsers) : UserDelete(a, id)
  \/ \E a \in Tokens, id \in Params(MaxUsers) : UserRestore(a, id)
  \/ \E a \in Tokens, d \in CoreBatches : PostStations(a, d)
  \/ \E a \in Tokens, id \in NumericParams(MaxStations) : StationDeleteFind(1, a, id)
  \/ LockerDestroy(1)
  \/ StationDestroy(1)
  \/ \E a \in Tokens, id \in Params(MaxStations) : StationRestore(a, id)
  \/ \E s \in 1..MaxStations : CreateLocker(s)
  \/ \E e \in CoreEmails : PostPosts(e)
  \/ \E a \in Tokens, pid \in PostIds, c \in Contents : PostComments(a, pid, c)
  \/ \E a \in Tokens, id \in Params(MaxComments) : CommentDelete(a, id)
  \/ \E a \in Tokens, id \in Params(MaxComments) : CommentRestore(a, id)

Spec == Init /\ [][Next]_vars

\* The stations router and the lockers it cascades to.
StationsNext ==
  \/ \E r \in StationRoutes, a \in Tokens : Refuse(r, a)
  \/ \E a \in Tokens, d \in Batches : PostStations(a, d)
  \/ \E a \in Tokens, id \in NumericParams(MaxStations) : StationDeleteFind(1, a, id)
  \/ LockerDestroy(1)
  \/ StationDestroy(1)
  \/ \E a \in Tokens, id \in Params(MaxStations) : StationRestore(a, id)
  \/ \E s \in 1..MaxStations : CreateLocker(s)

StationsSpec == Init /\ [][StationsNext]_vars

\* The stations router with its two reads.
StationReadsNext ==
  \/ \E r \in StationRoutes, a \in Tokens : Refuse(r, a)
  \/ \E a \in Tokens, d \in CoreBatches : PostStations(a, d)
  \/ \E a \in Tokens, id \in NumericParams(MaxStations) : StationDeleteFind(1, a, id)
  \/ LockerDestroy(1)
  \/ StationDestroy(1)
  \/ \E a \in Tokens, id \in Params(MaxStations) : StationRestore(a, id)
  \/ \E s \in 1..MaxStations : CreateLocker(s)
  \/ GetStations
  \/ \E id \in Params(MaxStations), w \in {"resolves", "throws"} : GetStation(id, w)

StationReadsSpec == Init /\ [][StationReadsNext]_vars

\* ------------------------------------------------------------ sign-up alone
\* The characters the sign-up rejects in an email, as the API documents them.
BlockedCharacters ==
  {"{", "}", "[", "]", "/", "?", ",", ";", ":", "|", ")", "*", "~", "backtick", "!",
   "^", "-", "+", "<", ">", "#", "$", "%", "&", "backslash", "=", "(", "apostrophe", "doublequote"}
Emails ==
  {JStr(EmailA), JStr(EmailB), JStr(EmailNoAt), JUndef,
   JStr(<< >>), JStr(<<"a", "@">>), JStr(<<"a", "@", "b">>),
   JStr(<<"a", "@", "b", ".", ".", "c">>), JStr(<<"a", "@", "b", ".", "c", "@", "d">>),
   JStr(<<"a", " ", "@", "b", ".", "c">>), JStr(<<"_", "a", "@", "b", ".", "c">>),
   JStr(<<"@", "b", ".", "c">>), JStr(<<"a", "@", "b", "_", "1", ".", "c">>)}
  \cup {JStr(<<"a", c, "@", "b", ".", "c">>) : c \in BlockedCharacters}
  \cup {JStr(<<"a", c>>) : c \in {"!", "-"}}
Passwords ==
  {JStr(PasswordGood), JStr(PasswordShort), JStr(Rep("p", 15)), JStr(Rep("p", 16)),
   JStr(<< >>), JStr(<<"p", "p", "p", " ", "p", "p", "p", "p">>), JUndef}

SignUpNext ==
  \/ \E r \in {"DELETE /users/:id", "PATCH /users/:id"}, a \in Tokens : Refuse(r, a)
  \/ \E e \in Emails, pw \in Passwords : SignUp(e, pw)
  \/ \E a \in Tokens, id \in Params(MaxUsers) : UserDelete(a, id)
  \/ \E a \in Tokens, id \in Params(MaxUsers) : UserRestore(a, id)

SignUpSpec == Init /\ [][SignUpNext]_vars

\* Sign-up requests that run at the same time, their store accesses in any
\* order; the users router's delete and restore run between them.
SignUpConcNext ==
  \/ \E r \in {"DELETE /users/:id", "PATCH /users/:id"}, a \in Tokens : Refuse(r, a)
  \/ \E p \in Procs, e \in CoreEmails, pw \in CorePasswords : SignUpFind(p, e, pw)
  \/ \E p \in Procs : SignUpCreate(p)
  \/ \E a \in Tokens, id \in Params(MaxUsers) : UserDelete(a, id)
  \/ \E a \in Tokens, id \in Params(MaxUsers) : UserRestore(a, id)

SignUpConcSpec == Init /\ [][SignUpConcNext]_vars

\* DELETE and restore requests of the stations router in flight together,
\* their repository calls in any order; stations and lockers are created
\* while no request is in flight.
StationsConcNext ==
  \/ \E r \in StationRoutes, a \in Tokens : Refuse(r, a)
  \/ \E a \in Tokens, d \in CoreBatches : PostStations(a, d)
  \/ \E s \in 1..MaxStations : CreateLocker(s)
  \/ \E p \in Procs, a \in Tokens, id \in NumericParams(MaxStations) :
       StationDeleteFindConcurrent(p, a, id)
  \/ \E p \in Procs : LockerDestroy(p)
  \/ \E p \in Procs : StationDestroy(p)
  \/ \E p \in Procs, a \in Tokens, id \in NumericParams(MaxStations) :
       StationRestoreConcurrent(p, a, id)

StationsConcSpec == Init /\ [][StationsConcNext]_vars

\* The comments router, with the sign-up and POST /posts that give it users
\* and posts.
CommentsNext ==
  \/ \E r \in CommentRoutes, a \in Tokens : Refuse(r, a)
  \/ \E e \in CoreEmails, pw \in CorePasswords : SignUp(e, pw)
  \/ \E e \in CoreEmails : PostPosts(e)
  \/ \E a \in Tokens, pid \in PostIds, c \in Contents : PostComments(a, pid, c)
  \/ \E a \in Tokens, u \in CallerIds, id \in Params(MaxComments) : GetComment(a, u, id)
  \/ \E a \in Tokens, id \in Params(MaxComments) : CommentDelete(a, id)
  \/ \E a \in Tokens, id \in Params(MaxComments) : CommentRestore(a, id)

CommentsSpec == Init /\ [][CommentsNext]_vars

\* Sign-up, POST /posts and POST /comments with the users router's delete
\* and restore: the requests that create rows which refer to other rows, and
\* the ones that could take a referred user away.
ReferencesNext ==
  \/ \E r \in {"DELETE /users/:id", "PATCH /users/:id", "POST /comments"}, a \in Tokens :
       Refuse(r, a)
  \/ \E e \in CoreEmails, pw \in CorePasswords : SignUp(e, pw)
  \/ \E e \in CoreEmails : PostPosts(e)
  \/ \E a \in Tokens, pid \in PostIds, c \in Contents : PostComments(a, pid, c)
  \/ \E a \in Tokens, id \in Params(MaxUsers) : UserDelete(a, id)
  \/ \E a \in Tokens, id \in Params(MaxUsers) : UserRestore(a, id)

ReferencesSpec == Init /\ [][ReferencesNext]_vars

\* The users router over a store that already holds user rows.  No route
\* leaves a user Deleted (DELETE /users/:id stops at its integer test), so a
\* Deleted user is a row the store holds when the router starts: any table
\* of users with distinct emails, each row Active or Deleted.
StoredEmails == {EmailA, EmailB}
StoredUsers ==
  {u \in UNION {[1..n -> [email : StoredEmails, deleted : BOOLEAN]] : n \in 0..MaxUsers} :
     \A i, j \in 1..Len(u) : u[i].email = u[j].email => i = j}

UsersInit ==
  /\ users \in StoredUsers
  /\ stations = << >>
  /\ lockers = << >>
  /\ posts = << >>
  /\ comments = << >>
  /\ pcs = [p \in Procs |-> Idle]
  /\ last = Done("", "none", NoId, NoBody, FALSE, NoAnswer)

UsersNext ==
  \/ \E r \in {"GET /users", "DELETE /users/:id", "PATCH /users/:id"}, a \in Tokens :
       Refuse(r, a)
  \/ \E e \in CoreEmails, pw \in CorePasswords : SignUp(e, pw)
  \/ \E a \in Tokens, u \in TokenIds : GetUsers(a, u)
  \/ \E a \in Tokens, id \in Params(MaxUsers) : UserDelete(a, id)
  \/ \E a \in Tokens, id \in Params(MaxUsers) : UserRestore(a, id)

UsersSpec == UsersInit /\ [][UsersNext]_vars

\* ------------------------------------------------------------------- claims
StationOf(id) == CHOOSE i \in IdsWhereId(stations, id) : TRUE
LockersOf(s) == {i \in 1..Len(lockers) : lockers[i].stationId = s}

\* C1: in every state the DELETE and restore handlers of stations reach, the
\* states between a handler's repository writes included, no locker is
\* Active while the station its stationId names is Deleted.
C1_NoActiveLockerUnderDeletedStation ==
  \A i \in 1..Len(lockers) :
    ~lockers[i].deleted => ~stations[lockers[i].stationId].deleted

\* C1 witness: a DELETE between its two writes: the station's lockers are
\* Deleted already, the station is still Active.
C1_BetweenTheWrites ==
  /\ pcs[1].pc = "Station.destroy"
  /\ ~stations[pcs[1].station].deleted
  /\ LockersOf(pcs[1].station) # {}
  /\ \A i \in LockersOf(pcs[1].station) : lockers[i].deleted

\* C2: a DELETE /stations/:id that found its station Active ends with 204,
\* the station Deleted and all lockers with its stationId Deleted; none of
\* its steps changes another station or a locker of another station.
C2_DeleteCascades ==
  [][pcs[1].pc # "idle" =>
       /\ \A j \in 1..Len(stations) :
            j # pcs[1].station => stations'[j] = stations[j]
       /\ \A i \in 1..Len(lockers) :
            lockers[i].stationId # pcs[1].station => lockers'[i] = lockers[i]
       /\ Len(stations') = Len(stations) /\ Len(lockers') = Len(lockers)
       /\ pcs'[1].pc = "idle" =>
            /\ last'.route = "DELETE /stations/:id"
            /\ last'.kind = "send" /\ last'.status = 204
            /\ stations'[pcs[1].station].deleted
            /\ \A i \in LockersOf(pcs[1].station) : lockers'[i].deleted]_vars

\* C2 witness: a DELETE answered 204 that deleted a station with a locker
\* while another station and its locker stayed Active.
C2_DeletedOneOfTwo ==
  /\ last.route = "DELETE /stations/:id" /\ last.status = 204
  /\ AllIdle
  /\ stations[StationOf(last.id)].deleted
  /\ \E i \in LockersOf(StationOf(last.id)) : lockers[i].deleted
  /\ \E j \in ActiveIds(stations) : \E i \in LockersOf(j) : ~lockers[i].deleted

\* A request of the given route was handled in this step.
Handled(route) == last' # last /\ last'.route = route /\ last'.ran

\* C3: an ADMIN's PATCH /stations/restore/:id for a station that a DELETE
\* has left Deleted answers 200 and leaves the station and all lockers with
\* its stationId Active.
C3_RestoreAfterDelete ==
  [][(/\ Handled("PATCH /stations/restore/:id")
      /\ last'.auth = "admin"
      /\ IdsWhereId(stations, last'.id) \cap DeletedIds(stations) # {})
     => /\ last'.kind = "send" /\ last'.status = 200
        /\ ~stations'[StationOf(last'.id)].deleted
        /\ \A i \in LockersOf(StationOf(last'.id)) : ~lockers'[i].deleted]_vars

\* C10: an ADMIN's POST /stations with one valid item whose name no row
\* holds answers 201 and appends exactly that row; the same POST again
\* answers 400 and adds no row.
ValidItem(item) ==
  /\ item.t = "object" /\ ~item.isNull /\ item.keys = {"name", "latitude", "longitude"}
  /\ item.name.t = "string"
  /\ item.latitude.t = "number" /\ item.latitude.n > -90 /\ item.latitude.n < 90
  /\ item.longitude.t = "number" /\ item.longitude.n > -180 /\ item.longitude.n < 180
OneValidItem(data) ==
  data.t = "array" /\ Len(data.items) = 1 /\ ValidItem(data.items[1])
C10_CreateThenDuplicate ==
  [][(Handled("POST /stations") /\ OneValidItem(last'.body)) =>
       /\ ~NameTaken(stations, last'.body.items[1].name.s) =>
            /\ last'.kind = "send" /\ last'.status = 201
            /\ stations' = Append(stations,
                 [name |-> last'.body.items[1].name.s,
                  latitude |-> last'.body.items[1].latitude.n,
                  longitude |-> last'.body.items[1].longitude.n,
                  deleted |-> FALSE])
       /\ (last.route = "POST /stations" /\ last.status = 201
             /\ last.body = last'.body) =>
            /\ last'.kind = "http" /\ last'.status = 400
            /\ stations' = stations]_vars

\* C10 witness: the one row of the table is station A, and the POST of A
\* was answered "already stored".
C10_RepeatedPost ==
  /\ last.route = "POST /stations" /\ last.status = 400 /\ last.why = "duplicate"
  /\ last.body = Arr(<<ItemA>>)
  /\ Len(stations) = 1 /\ stations[1].name = <<"A">> /\ ~stations[1].deleted

\* The row a restore request names: its table, and whether it is there.
RestoreRoutes ==
  {"PATCH /comments/restore/:id", "PATCH /users/:id", "PATCH /stations/restore/:id"}
TableOf(route) ==
  CASE route = "PATCH /comments/restore/:id" -> comments
    [] route = "PATCH /users/:id" -> users
    [] route = "PATCH /stations/restore/:id" -> stations
RestoreHandled == \E r \in RestoreRoutes : Handled(r)
Answered400 == last'.kind = "http" /\ last'.status = 400
AnsweredSuccess == last'.kind = "send" /\ last'.status \in {200, 201}

\* C4: a restore PATCH for a Comment, User or Station that is Active
\* answers 400 and changes no stored record.
C4_RestoreOfActiveIs400 ==
  [][(/\ RestoreHandled
      /\ IdsWhereId(TableOf(last'.route), last'.id)
            \cap ActiveIds(TableOf(last'.route)) # {})
     => Answered400 /\ db' = db]_vars

\* C5: a restore PATCH answers with success only if the row was Deleted;
\* for a row that is Active or was never created it answers with an error
\* and changes nothing.
C5_RestoreNeedsDeleted ==
  [][RestoreHandled =>
       /\ AnsweredSuccess =>
            IdsWhereId(TableOf(last'.route), last'.id)
              \cap DeletedIds(TableOf(last'.route)) # {}
       /\ IdsWhereId(TableOf(last'.route), last'.id)
             \cap DeletedIds(TableOf(last'.route)) = {} =>
            last'.kind \in {"http", "error"} /\ db' = db]_vars

\* C6: a request with a valid USER token to an ADMIN-only route is answered
\* 401 or 403, the handler body does not run, and no table changes.
AdminOnlyRoutes ==
  {"POST /comments", "DELETE /comments/:id", "PATCH /comments/restore/:id",
   "GET /users", "PATCH /users/:id", "POST /stations", "DELETE /stations/:id",
   "PATCH /stations/restore/:id"}
C6_UserTokenRefused ==
  [][(/\ last' # last
      /\ last'.route \in AdminOnlyRoutes
      /\ last'.auth = "user")
     => /\ last'.status \in {401, 403}
        /\ ~last'.ran
        /\ db' = db /\ pcs' = pcs]_vars

\* C6 witness: a USER token's DELETE of an Active station with a locker was
\* refused in front of the handler.
C6_UserDeleteRefused ==
  /\ last.route = "DELETE /stations/:id" /\ last.auth = "user"
  /\ last.kind = "gate" /\ last.status \in {401, 403} /\ ~last.ran
  /\ \E j \in ActiveIds(stations) : \E i \in LockersOf(j) : ~lockers[i].deleted

SignUpHandled == Handled("POST /auth/sign-up")

\* C7: a sign-up whose email is that of an Active user answers 400 and
\* creates no user, whatever the password.
C7_DuplicateEmailIs400 ==
  [][(/\ SignUpHandled
      /\ last'.body.email.t = "string"
      /\ \E i \in ActiveIds(users) : users[i].email = last'.body.email.s)
     => Answered400 /\ users' = users]_vars

\* C7 witness: the duplicate was refused although the password is too
\* short as well.
C7_DuplicateWithShortPassword ==
  /\ last.route = "POST /auth/sign-up" /\ last.status = 400
  /\ last.why = "duplicate"
  /\ last.body.password = JStr(PasswordShort)
  /\ \E i \in ActiveIds(users) : users[i].email = last.body.email.s

\* C8: a sign-up whose password is shorter than 8 or longer than 15
\* answers 400 and creates no user, whatever string the email field holds
\* (an email without '@' included).
C8_PasswordLengthIs400 ==
  [][(/\ SignUpHandled
      /\ last'.body.email.t = "string"
      /\ last'.body.password.t = "string"
      /\ Len(last'.body.password.s) < 8 \/ Len(last'.body.password.s) > 15)
     => Answered400 /\ users' = users]_vars

\* C9: a sign-up whose email holds a blocked character answers 400 and
\* creates no user, whatever the password.
C9_BlockedCharacterIs400 ==
  [][(/\ SignUpHandled
      /\ last'.body.email.t = "string"
      /\ \E i \in 1..Len(last'.body.email.s) :
            last'.body.email.s[i] \in BlockedCharacters)
     => Answered400 /\ users' = users]_vars

\* C9 witness: an email that only its '!' keeps from being registered,
\* sent with a good password.
C9_OnlyTheBlockedCharacter ==
  /\ last.route = "POST /auth/sign-up" /\ last.status = 400
  /\ last.why = "special"
  /\ last.body.email = JStr(<<"a", "!", "@", "b", ".", "c">>)
  /\ last.body.password = JStr(PasswordGood)

\* C11: after any sign-up, user delete and user restore requests, two
\* sign-ups for one email running at the same time included, no two user
\* rows hold the same email.
C11_EmailsUnique ==
  \A i, j \in 1..Len(users) : users[i].email = users[j].email => i = j

\* C11 witness: both requests passed the duplicate check for the same email
\* before either created; one row was created and the other create failed
\* on the unique index.
C11_LostTheRace ==
  /\ AllIdle
  /\ last.route = "POST /auth/sign-up"
  /\ last.why = "SequelizeUniqueConstraintError"
  /\ Cardinality({i \in 1..Len(users) : users[i].email = last.body.email.s}) = 1

\* C12: after any POST /stations, DELETE /stations/:id and PATCH
\* /stations/restore/:id requests, no two station rows, Active or Deleted,
\* hold the same name.
C12_NamesUnique ==
  \A i, j \in 1..Len(stations) : stations[i].name = stations[j].name => i = j

\* C12 witness: a station was created and deleted, and a later POST /stations
\* with its name passed Station.findOne and failed on the unique index.
C12_NameOfDeletedStation ==
  /\ last.route = "POST /stations"
  /\ last.why = "SequelizeUniqueConstraintError"
  /\ \E i \in DeletedIds(stations) :
       \E k \in 1..Len(last.body.items) :
         /\ last.body.items[k].name.t = "string"
         /\ last.body.items[k].name.s = stations[i].name

\* An item that carries a numeric latitude or longitude outside the open
\* ranges.
OutOfRange(item) ==
  \/ item.latitude.t = "number"
     /\ (item.latitude.n <= -90 \/ item.latitude.n >= 90)
  \/ item.longitude.t = "number"
     /\ (item.longitude.n <= -180 \/ item.longitude.n >= 180)

\* C13: every station row has a latitude strictly between -90 and 90 and a
\* longitude strictly between -180 and 180; a POST /stations whose batch has
\* an item out of either range is not answered 201, and is answered 400
\* when the items before that one were all created.
C13_CoordinatesInRange ==
  [][/\ \A i \in 1..Len(stations') :
          /\ -90 < stations'[i].latitude /\ stations'[i].latitude < 90
          /\ -180 < stations'[i].longitude /\ stations'[i].longitude < 180
     /\ (Handled("POST /stations") /\ last'.body.t = "array") =>
          \A k \in 1..Len(last'.body.items) :
            OutOfRange(last'.body.items[k]) =>
              /\ last'.status # 201
              /\ Len(stations') - Len(stations) < k
              /\ Len(stations') - Len(stations) = k - 1 => last'.status = 400
    ]_vars

\* C13 witness: the item at latitude 89, longitude 179 was created, and the
\* item after it, at longitude 180, was refused with 400.
C13_EdgeKeptBoundRefused ==
  /\ last.route = "POST /stations"
  /\ last.body = Arr(<<ItemNorthEast, ItemLongitude180>>)
  /\ last.status = 400
  /\ \E i \in 1..Len(stations) :
       stations[i].latitude = 89 /\ stations[i].longitude = 179

\* C14: while a station is Deleted, GET /stations does not list it, GET
\* /stations/:id with its id answers that there is no such station, and
\* PATCH /stations/restore/:id with its id, by an admin, finds the row and
\* restores it.
C14_DeletedHiddenButRestorable ==
  [][/\ last' # last /\ last'.route = "GET /stations" =>
          last'.sent \cap DeletedIds(stations) = {}
     /\ (/\ last' # last /\ last'.route = "GET /stations/:id"
         /\ IdsWhereId(stations, last'.id) \cap DeletedIds(stations) # {}) =>
          last'.why = "no station"
     /\ (/\ Handled("PATCH /stations/restore/:id")
         /\ IdsWhereId(stations, last'.id) \cap DeletedIds(stations) # {}) =>
          /\ last'.status \in {200, 201}
          /\ IdsWhereId(stations, last'.id) \subseteq ActiveIds(stations')
    ]_vars

\* The rows of a table stay in place from one state to the next, each
\* either Active or Deleted and otherwise unchanged.
RowsStay(old, new) ==
  /\ Len(new) >= Len(old)
  /\ \A i \in 1..Len(new) : new[i].deleted \in BOOLEAN
  /\ \A i \in 1..Len(old) : new[i] = [old[i] EXCEPT !.deleted = new[i].deleted]
BecameDeleted(old, new) ==
  {i \in 1..Len(old) : ~old[i].deleted /\ new[i].deleted}
BecameActive(old, new) ==
  {i \in 1..Len(old) : old[i].deleted /\ ~new[i].deleted}

\* C15: no step removes a user, station, locker or comment row or changes
\* anything of it but its state; a row goes from Active to Deleted only in
\* a DELETE of its entity (a locker: in the cascade of its station's DELETE)
\* and from Deleted to Active only in its entity's restore (a locker: in its
\* station's restore).
C15_TwoStatesNoRemoval ==
  [][/\ RowsStay(users, users') /\ RowsStay(stations, stations')
     /\ RowsStay(lockers, lockers') /\ RowsStay(comments, comments')
     /\ BecameDeleted(users, users') # {} =>
          /\ Handled("DELETE /users/:id")
          /\ BecameDeleted(users, users') \subseteq IdsWhereId(users, last'.id)
     /\ BecameDeleted(comments, comments') # {} =>
          /\ Handled("DELETE /comments/:id")
          /\ BecameDeleted(comments, comments') \subseteq IdsWhereId(comments, last'.id)
     /\ BecameDeleted(lockers, lockers') # {} =>
          /\ pcs[1].pc = "Locker.destroy"
          /\ BecameDeleted(lockers, lockers') \subseteq LockersOf(pcs[1].station)
     /\ BecameDeleted(stations, stations') # {} =>
          /\ pcs[1].pc = "Station.destroy" /\ Handled("DELETE /stations/:id")
          /\ BecameDeleted(stations, stations') = {pcs[1].station}
     /\ BecameActive(users, users') # {} => Handled("PATCH /users/:id")
     /\ BecameActive(comments, comments') # {} => Handled("PATCH /comments/restore/:id")
     /\ BecameActive(stations, stations') \cup BecameActive(lockers, lockers') # {} =>
          Handled("PATCH /stations/restore/:id")
    ]_vars

\* C15 witness: a station and its locker are Deleted and still rows of
\* their tables, next to an Active station and a user.
C15_DeletedRowsKept ==
  /\ AllIdle
  /\ \E s \in DeletedIds(stations) : \E i \in LockersOf(s) : lockers[i].deleted
  /\ ActiveIds(stations) # {}
  /\ ActiveIds(users) # {}

\* C16: a POST /stations that is answered 400 has created no station.
C16_RefusedBatchPersistsNothing ==
  [][(Handled("POST /stations") /\ last'.status = 400) => stations' = stations]_vars

\* C17: a handler that throws hands the error to the error responder: no
\* request ends in next() without the error, and a GET /users whose try
\* block throws an HttpException is answered with that exception's status.
C17_ThrownErrorForwarded ==
  [][(last' # last /\ last'.ran) =>
       /\ last'.kind # "next"
       /\ (last'.route = "GET /users" /\ GetUsersTry(last'.id).kind = "http") =>
            /\ last'.kind = "http"
            /\ last'.status = GetUsersTry(last'.id).status]_vars

\* C18: a GET /comments/:id for an existing comment is answered 200 to an
\* admin; to a caller of authority user it is answered 200 if the post of
\* the comment's postId has the caller's id as userId, and 401 if not.
C18_CommentReadAuthorized ==
  [][(/\ Handled("GET /comments/:id")
      /\ IdsWhereId(comments, last'.id) \cap ActiveIds(comments) # {}) =>
       LET c == CHOOSE i \in IdsWhereId(comments, last'.id) : TRUE
           owner == JNum(posts[comments[c].postId].userId) = last'.caller
       IN IF last'.auth = "admin" \/ owner THEN last'.status = 200
          ELSE last'.status = 401]_vars

\* C19: a POST /comments whose content is a string of nothing but spaces,
\* tabs and newlines is answered 400 and creates no comment.
C19_BlankContentIs400 ==
  [][(/\ Handled("POST /comments")
      /\ last'.body.content.t = "string"
      /\ \A i \in 1..Len(last'.body.content.s) :
           last'.body.content.s[i] \in {" ", "\t", "\n"}) =>
       last'.status = 400 /\ comments' = comments]_vars

C21_QuiescentCascadeHolds ==
  AllIdle =>
    \A i \in 1..Len(lockers) :
      stations[lockers[i].stationId].deleted => lockers[i].deleted

\* C21 witness: two DELETE requests for one station with a locker are between
\* their repository calls, one before Locker.destroy and one after it, when a
\* restore request for the same station is handled.
C21_ThreeRequestsOneStation ==
  /\ pcs[1].pc = "Station.destroy"
  /\ pcs[2].pc = "Locker.destroy"
  /\ pcs[1].station = pcs[2].station
  /\ LockersOf(pcs[1].station) # {}
  /\ last.route = "PATCH /stations/restore/:id"
  /\ last.ran
  /\ IdsWhereId(stations, last.id) = {pcs[1].station}

\* C22: every comment's postId is the id of a post row and every post's
\* userId is the id of a user row; a POST /comments whose postId is the id
\* of no post, and a POST /posts whose email is the email of no Active user,
\* are answered 400 and create nothing.
C22_ReferencesExist ==
  [][/\ \A i \in 1..Len(comments') : comments'[i].postId \in 1..Len(posts')
     /\ \A i \in 1..Len(posts') : posts'[i].userId \in 1..Len(users')
     /\ (/\ Handled("POST /comments")
         /\ last'.body.content.t = "string"
         /\ ~(last'.body.postId.t = "number"
              /\ last'.body.postId.n \in 1..Len(posts))) =>
          last'.status = 400 /\ comments' = comments
     /\ (/\ Handled("POST /posts")
         /\ last'.body.email.t = "string"
         /\ ~\E u \in ActiveIds(users) : users[u].email = last'.body.email.s) =>
          last'.status = 400 /\ posts' = posts
    ]_vars

\* C22 witness: a comment on post 1 of user 1 is stored, and a POST /comments
\* for a postId that no post has was refused with 400.
C22_UnknownPostRefused ==
  /\ last.route = "POST /comments"
  /\ last.ran
  /\ last.body.postId.t = "number"
  /\ last.body.postId.n \notin 1..Len(posts)
  /\ last.status = 400
  /\ \E i \in 1..Len(comments) :
       comments[i].postId \in 1..Len(posts)
       /\ posts[comments[i].postId].userId \in 1..Len(users)

====
